---- MODULE Spec2Model ----
(***************************************************************************)
(* Model of static/js/app.js (Tivaan Vision UI -> backend): the binding of *)
(* every .run-detect trigger by attachDetectHandlers and the asynchronous  *)
(* click handler, one action per synchronous segment between two awaits.   *)
(***************************************************************************)
EXTENDS Integers, Sequences, FiniteSets, TLC

\* ------------------------------------------------------------------ bounds
\* total number of trigger activations explored
MaxClicks == 2
\* largest value Date.now() is observed to take (the clock saturates there)
MaxTime == 1
\* the largest vehicle count of the range the distance is computed over
MaxCount == 70

\* ------------------------------------------------------------- the document
NullEl == "null"

Triggers == {"b1", "b2"}

\* every element a page of the model can hold
Elems ==
  {"body", "f1", "f2", "c1", "b1", "b2", "in1", "in2", "st1", "st2", "d1", "d2",
   "pv1", "an1", "an2", "me1", "me2", "io1", "io2", "th1", "th2", "th3"}

\* the elements whose text, and those whose image, the handlers can reach
TextElems == {"st1", "st2", "d1", "d2", "me1", "me2", "io1", "io2"}
ImgElems == {"pv1", "an1", "an2", "th1", "th2", "th3"}
FileInputs == {"in1", "in2"}

\* selectors an element matches by its tag, its id or its attributes
StaticSels(e) ==
  CASE e \in {"f1", "f2"} -> {"form"}
    [] e \in {"in1", "in2"} -> {"input[type=file]"}
    [] e = "st2" -> {"#status"}
    [] e = "an2" -> {"#resultImg"}
    [] e = "me2" -> {"#meta"}
    [] e = "io2" -> {"#iotOutput"}
    [] OTHER -> {}

\* the class attribute of the page's markup ("" when the element has none)
MarkupClass(e) ==
  CASE e = "c1" -> "card"
    [] e \in Triggers -> "run-detect"
    [] e = "st1" -> "tv-status"
    [] e = "pv1" -> "tv-preview"
    [] e = "an1" -> "tv-annotated"
    [] e = "me1" -> "tv-meta"
    [] e = "io1" -> "tv-iot"
    [] e \in {"th1", "th2", "th3"} -> "metrics-thumb"
    [] OTHER -> ""

\* the class a class selector names
ClassOfSel(sel) ==
  CASE sel = ".card" -> "card"
    [] sel = ".run-detect" -> "run-detect"
    [] sel = ".tv-status" -> "tv-status"
    [] sel = ".tv-preview" -> "tv-preview"
    [] sel = ".tv-annotated" -> "tv-annotated"
    [] sel = ".tv-meta" -> "tv-meta"
    [] sel = ".tv-iot" -> "tv-iot"
    [] sel = ".metrics-thumb" -> "metrics-thumb"
    [] OTHER -> "?"

\* the <div> that binding trigger b creates when its container has no status
CreatedStatus(b) == IF b = "b1" THEN "d1" ELSE "d2"

\* the pages the script is loaded on: elements in document order, each with
\* its parent element
Page(ord, par) == [order |-> ord, parent |-> [e \in Elems |-> IF e \in DOMAIN par THEN par[e] ELSE NullEl]]

In(p, es) == [e \in es |-> p]

TwoForms ==
  Page(<<"body", "th1", "f1", "in1", "b1", "st1", "pv1", "an1", "me1", "io1",
         "f2", "in2", "b2", "st2", "an2", "me2">>,
       In("body", {"th1", "f1", "f2"})
         @@ In("f1", {"in1", "b1", "st1", "pv1", "an1", "me1", "io1"})
         @@ In("f2", {"in2", "b2", "st2", "an2", "me2"}))

SharedForm ==
  Page(<<"body", "th1", "f1", "in1", "b1", "b2", "st1", "an1", "me1", "io1">>,
       In("body", {"th1", "f1"})
         @@ In("f1", {"in1", "b1", "b2", "st1", "an1", "me1", "io1"}))

BareBody ==
  Page(<<"body", "in1", "b1", "b2", "me1">>,
       In("body", {"in1", "b1", "b2", "me1"}))

BareAndCard ==
  Page(<<"body", "b1", "c1", "in2", "b2", "st2", "me2", "io2">>,
       In("body", {"b1", "c1"}) @@ In("c1", {"in2", "b2", "st2", "me2", "io2"}))

OneTrigger ==
  Page(<<"body", "f1", "in1", "b1", "st1", "me1", "io1", "c1">>,
       In("body", {"f1", "c1"}) @@ In("f1", {"in1", "b1", "st1", "me1", "io1"}))

Pages == {TwoForms, SharedForm, BareBody, BareAndCard, OneTrigger}

\* the elements that can hold others
Containers == {"body", "f1", "f2", "c1"}

\* elements a page script may insert after load
Insertable == {"b2", "io1"}
\* where a page script puts an element it inserts: a trigger anywhere, a
\* sensor-output slot in the first form
InsertHomes(e) == IF e = "io1" THEN {"f1"} ELSE Containers

VARIABLES
  order,       \* the elements of the document, in document order
  parent,      \* parent element of each element of the document
  className,   \* el.className
  innerHTML,   \* el.innerHTML
  imgSrc,      \* el.src
  display,     \* el.style.display
  disabled,    \* btn.disabled
  files,       \* number of files selected in a file input
  tvAttached,  \* btn.dataset.tvAttached === "1"
  listeners,   \* number of click listeners added to a trigger
  bind,        \* the elements the click listener of a trigger closes over
  pc,          \* where the run of a trigger is suspended
  run,         \* what the latest run of a trigger has received, and how it ended
  net,         \* requests in flight
  clock,       \* last value Date.now() returned
  writers,     \* triggers whose handler has written an element
  clicks       \* activations so far

vars ==
  <<order, parent, className, innerHTML, imgSrc, display, disabled, files,
    tvAttached, listeners, bind, pc, run, net, clock, writers, clicks>>

\* ---------------------------------------------------------- DOM look-ups
InDoc(e, ord) == \E i \in 1..Len(ord) : ord[i] = e

Matches(e, sel, cls) ==
  IF ClassOfSel(sel) # "?" THEN cls[e] = ClassOfSel(sel) ELSE sel \in StaticSels(e)

RECURSIVE closest(_, _, _, _)
closest(e, sel, par, cls) ==
  IF e = NullEl THEN NullEl
  ELSE IF Matches(e, sel, cls) THEN e
  ELSE closest(par[e], sel, par, cls)

RECURSIVE IsDescendant(_, _, _)
IsDescendant(e, root, par) ==
  IF par[e] = NullEl THEN FALSE
  ELSE IF par[e] = root THEN TRUE
  ELSE IsDescendant(par[e], root, par)

\* root.querySelectorAll(sel): the matching descendants in document order
qsa(sel, root, ord, par, cls) ==
  SelectSeq(ord, LAMBDA e : IsDescendant(e, root, par) /\ Matches(e, sel, cls))

\* root.querySelector(sel): the first of them, or null
qs(sel, root, ord, par, cls) ==
  LET found == qsa(sel, root, ord, par, cls)
  IN  IF found = <<>> THEN NullEl ELSE Head(found)

\* a || b on element references
OrElse(a, b) == IF a # NullEl THEN a ELSE b

IndexOf(e, ord) == CHOOSE i \in 1..Len(ord) : ord[i] = e

\* btn.insertAdjacentElement("afterend", d)
InsertAfter(ord, btn, d) ==
  LET i == IndexOf(btn, ord)
  IN  SubSeq(ord, 1, i) \o <<d>> \o SubSeq(ord, i + 1, Len(ord))

\* a page-global look-up, document.querySelectorAll(sel)
docAll(sel, ord, cls) == SelectSeq(ord, LAMBDA e : Matches(e, sel, cls))

\* ------------------------------------------------------------- JS values
\* n holds a number in tenths, so that Math.round has something to round
NoFields == [k \in {} |-> 0]
Undef == [t |-> "undefined", n |-> 0, s |-> "", f |-> NoFields]
JNull == [t |-> "null", n |-> 0, s |-> "", f |-> NoFields]
NaN == [t |-> "nan", n |-> 0, s |-> "", f |-> NoFields]
Tenths(n) == [t |-> "number", n |-> n, s |-> "", f |-> NoFields]
Num(i) == Tenths(10 * i)
Str(s) == [t |-> "string", n |-> 0, s |-> s, f |-> NoFields]
Bool(b) == [t |-> "boolean", n |-> IF b THEN 1 ELSE 0, s |-> "", f |-> NoFields]
Obj(fields) == [t |-> "object", n |-> 0, s |-> "", f |-> fields]

\* v.k for a v that is neither null nor undefined
Get(v, k) == IF v.t = "object" /\ k \in DOMAIN v.f THEN v.f[k] ELSE Undef

Truthy(v) ==
  ~ \/ v.t \in {"undefined", "null", "nan"}
    \/ v.t = "number" /\ v.n = 0
    \/ v.t = "string" /\ v.s = ""
    \/ v.t = "boolean" /\ v.n = 0

\* a || b
LogicalOr(a, b) == IF Truthy(a) THEN a ELSE b
\* a ?? b
Coalesce(a, b) == IF a.t \in {"undefined", "null"} THEN b ELSE a

\* `${v}`
Text(v) ==
  CASE v.t = "undefined" -> "undefined"
    [] v.t = "null" -> "null"
    [] v.t = "nan" -> "NaN"
    [] v.t = "string" -> v.s
    [] v.t = "boolean" -> IF v.n = 1 THEN "true" ELSE "false"
    [] v.t = "object" -> "[object Object]"
    [] v.t = "number" ->
         LET a == IF v.n < 0 THEN -v.n ELSE v.n
             whole == (IF v.n < 0 THEN "-" ELSE "") \o ToString(a \div 10)
         IN  IF a % 10 = 0 THEN whole ELSE whole \o "." \o ToString(a % 10)

\* the numeric conversion the * operator applies to its operand
ToNumber(v) ==
  CASE v.t = "number" -> v
    [] v.t = "boolean" -> Num(v.n)
    [] v.t = "null" -> Num(0)
    [] v.t = "string" /\ v.s = "" -> Num(0)
    [] v.t = "string" /\ v.s = "12" -> Num(12)
    [] OTHER -> NaN

\* Math.round on tenths: to the nearest integer, halves upwards
MathRound(n) == 10 * ((n + 5) \div 10)

\* Math.min in the place of Math.max
MinOf(a, b) == IF a <= b THEN a ELSE b

MaxOf(a, b) == IF a >= b THEN a ELSE b

\* Math.max(5, Math.round(140 - count*2.0))
Distance(count) ==
  LET c == ToNumber(count)
  IN  IF c.t = "nan" THEN NaN ELSE Tenths(MaxOf(10 * 5, MathRound(10 * 140 - c.n * 2)))

\* the value JSON.stringify writes for a number
Stringified(v) == IF v.t = "nan" THEN JNull ELSE v

\* ---------------------------------------------------------- page content
Html(k, a, b, c) == [k |-> k, a |-> a, b |-> b, c |-> c]
Empty == Html("", "", "", "")
Processing == Html("<em>Processing</em>", "", "", "")
ChooseImage == Html("Please choose an image first", "", "", "")
ServerErrorFixed(code) == Html("Server error", "500", "", "")
ServerError(code) == Html("Server error", ToString(code), "", "")
InvalidResponse == Html("Invalid server response", "", "", "")
NetworkError == Html("Network error", "", "", "")
Completed == Html("<b>Detection completed</b>", "", "", "")
MetaHtml(count, risk) ==
  Html("Vehicles/Risk", Text(Coalesce(count, Str("N/A"))), Text(Coalesce(risk, Str("N/A"))), "")
IotHtml(r) ==
  Html("Distance/Alert/Action", Text(Get(r, "distance")), Text(Get(r, "alert")),
       Text(Get(r, "recommended_action")))
IotFailed == Html("IoT sim failed", "", "", "")

\* what a handler segment reads and writes of the page, as one record
UI ==
  [innerHTML |-> innerHTML, className |-> className, imgSrc |-> imgSrc,
   display |-> display, disabled |-> disabled]

\* setStatus(el, html, klass)
setStatus(u, el, html, klass) ==
  IF el = NullEl THEN u ELSE [u EXCEPT !.innerHTML[el] = html, !.className[el] = klass]

\* ------------------------------------------------- attachDetectHandlers
NoBinding ==
  [container |-> NullEl, fileInput |-> NullEl, statusEl |-> NullEl, previewEl |-> NullEl,
   annotatedEl |-> NullEl, metaEl |-> NullEl, iotEl |-> NullEl]

\* the DOM state the attachment reads and writes, as one record
DomState ==
  [order |-> order, parent |-> parent, className |-> className,
   tvAttached |-> tvAttached, listeners |-> listeners, bind |-> bind]

\* an attachment that does not look at the marker
NeverAttached(btn, d) == FALSE

\* if (btn.dataset.tvAttached === "1") return;
AlreadyAttached(btn, d) == d.tvAttached[btn]

\* a look-up that always searches the whole document
ContainerBody(btn, d) == "body"

\* a look-up that prefers the card to the form
ContainerCardFirst(btn, d) ==
  OrElse(closest(btn, ".card", d.parent, d.className),
         OrElse(closest(btn, "form", d.parent, d.className), "body"))

\* btn.closest("form") || btn.closest(".card") || document.body
ContainerOf(btn, d) ==
  OrElse(closest(btn, "form", d.parent, d.className),
         OrElse(closest(btn, ".card", d.parent, d.className), "body"))

\* lines 94-205: the trigger is marked, its elements are looked up and its
\* listener is added
BindFresh(btn, d) ==
    LET container == ContainerOf(btn, d)
        q0(sel) == qs(sel, container, d.order, d.parent, d.className)
        fileInput ==
          OrElse(q0("input[type=file]"), OrElse(q0("input[name=file]"), q0("input[name=image]")))
        found == OrElse(q0(".tv-status"), q0("#status"))
        statusEl == IF found = NullEl THEN CreatedStatus(btn) ELSE found
        ord1 == IF found = NullEl THEN InsertAfter(d.order, btn, statusEl) ELSE d.order
        par1 == IF found = NullEl THEN [d.parent EXCEPT ![statusEl] = d.parent[btn]] ELSE d.parent
        cls1 == IF found = NullEl THEN [d.className EXCEPT ![statusEl] = "tv-status"] ELSE d.className
        q1(sel) == qs(sel, container, ord1, par1, cls1)
    IN  [order |-> ord1, parent |-> par1, className |-> cls1,
         tvAttached |-> [d.tvAttached EXCEPT ![btn] = TRUE],
         listeners |-> [d.listeners EXCEPT ![btn] = @ + 1],
         bind |-> [d.bind EXCEPT ![btn] =
                     [container |-> container,
                      fileInput |-> fileInput,
                      statusEl |-> statusEl,
                      previewEl |-> OrElse(q1(".tv-preview"), q1("#preview")),
                      annotatedEl |-> OrElse(q1(".tv-annotated"), q1("#resultImg")),
                      metaEl |-> OrElse(q1(".tv-meta"), q1("#meta")),
                      iotEl |-> OrElse(q1(".tv-iot"), q1("#iotOutput"))]]]

\* an attachment that looks the elements of a bound trigger up again
BindOneAgain(btn, d) ==
  IF AlreadyAttached(btn, d) THEN [d EXCEPT !.bind = BindFresh(btn, d).bind]
  ELSE BindFresh(btn, d)

\* the body of runButtons.forEach for one trigger
BindOne(btn, d) == IF AlreadyAttached(btn, d) THEN d ELSE BindFresh(btn, d)

RECURSIVE BindEach(_, _)
BindEach(btns, d) ==
  IF btns = <<>> THEN d ELSE BindEach(Tail(btns), BindOne(Head(btns), d))

\* attachDetectHandlers(): runButtons is the list found before the loop runs
Attached(d) == BindEach(docAll(".run-detect", d.order, d.className), d)

attachDetectHandlers ==
  LET d == Attached(DomState)
  IN  /\ order' = d.order
      /\ parent' = d.parent
      /\ className' = d.className
      /\ tvAttached' = d.tvAttached
      /\ listeners' = d.listeners
      /\ bind' = d.bind
      /\ UNCHANGED <<innerHTML, imgSrc, display, disabled, files, pc, run, net,
                     clock, writers, clicks>>

\* the markup of a freshly loaded page, before the script has run
Markup(page) ==
  [order |-> page.order, parent |-> page.parent,
   className |-> [e \in Elems |-> MarkupClass(e)],
   tvAttached |-> [b \in Triggers |-> FALSE],
   listeners |-> [b \in Triggers |-> 0],
   bind |-> [b \in Triggers |-> NoBinding]]

\* a body whose reading fails: text() or json() rejects
Unreadable == [read |-> FALSE, json |-> FALSE, val |-> Undef]
\* the locals of a run: the status and the body of the detection response,
\* those of the sensor response (status 0: the fetch was rejected or is not
\* settled), and the exit the handler took
NoRun == [end |-> "none", code |-> 0, txt |-> Unreadable, iotCode |-> 0, iotTxt |-> Unreadable]
Started == [NoRun EXCEPT !.end = "running"]

ThumbSrc == <<"/static/metrics.png", "v=1">>
\* the src attribute of the page's markup, split at "?" (<<>> when the
\* element has none)
MarkupSrc(e) ==
  CASE e = "th1" -> ThumbSrc
    [] e = "th3" -> <<"/static/roc.png">>
    [] OTHER -> <<>>

\* the state once the script has been evaluated: line 210 has attached the
\* triggers of the page
InitOn(pages) ==
  \E page \in pages :
    LET d == Attached(Markup(page))
    IN  /\ order = d.order
        /\ parent = d.parent
        /\ className = d.className
        /\ tvAttached = d.tvAttached
        /\ listeners = d.listeners
        /\ bind = d.bind
        /\ innerHTML = [e \in TextElems |-> Empty]
        /\ imgSrc = [e \in ImgElems |-> MarkupSrc(e)]
        /\ display = [e \in ImgElems |-> ""]
        /\ disabled = [b \in Triggers |-> FALSE]
        /\ files = [e \in FileInputs |-> 0]
        /\ pc = [b \in Triggers |-> "idle"]
        /\ run = [b \in Triggers |-> NoRun]
        /\ net = {}
        /\ clock = 0
        /\ writers = [e \in TextElems \cup ImgElems |-> {}]
        /\ clicks = [b \in Triggers |-> 0]

Init == InitOn(Pages)

\* --------------------------------------------------------- the page's user
\* the user picks a file in, or clears, a file input
SelectFile(e) ==
  /\ InDoc(e, order)
  /\ "input[type=file]" \in StaticSels(e)
  /\ files[e] = 0
  /\ files' = [files EXCEPT ![e] = 1]
  /\ UNCHANGED <<order, parent, className, innerHTML, imgSrc, display, disabled,
                 tvAttached, listeners, bind, pc, run, net, clock, writers, clicks>>

ClearFile(e) ==
  /\ InDoc(e, order)
  /\ files[e] > 0
  /\ files' = [files EXCEPT ![e] = 0]
  /\ UNCHANGED <<order, parent, className, innerHTML, imgSrc, display, disabled,
                 tvAttached, listeners, bind, pc, run, net, clock, writers, clicks>>

\* the last position of the subtree of p in document order
RECURSIVE LastOf(_, _, _, _)
LastOf(p, ord, par, i) ==
  IF i = 0 THEN 0
  ELSE IF ord[i] = p \/ IsDescendant(ord[i], p, par) THEN i
  ELSE LastOf(p, ord, par, i - 1)

\* a page script appends a new element e to container p
InsertElement(e, p) ==
  /\ e \in Insertable
  /\ ~ InDoc(e, order)
  /\ InDoc(p, order)
  /\ p \in InsertHomes(e)
  /\ LET i == LastOf(p, order, parent, Len(order))
     IN  order' = SubSeq(order, 1, i) \o <<e>> \o SubSeq(order, i + 1, Len(order))
  /\ parent' = [parent EXCEPT ![e] = p]
  /\ UNCHANGED <<className, innerHTML, imgSrc, display, disabled, files,
                 tvAttached, listeners, bind, pc, run, net, clock, writers, clicks>>

\* ------------------------------------------------------- the click handler
\* status codes a server answers with
HttpCodes == {200, 404, 500}
\* resp.ok
RespOk(code) == code >= 200 /\ code <= 299

\* response bodies of /api/detect: text that JSON.parse rejects, or the
\* text of a JSON value
Garbage == [read |-> TRUE, json |-> FALSE, val |-> Undef]
JsonText(v) == [read |-> TRUE, json |-> TRUE, val |-> v]
DetectValues ==
  {JNull,
   Obj(NoFields),
   Obj([vehicle_count |-> Num(12), output_image |-> Str("/out/a.jpg"), risk_level |-> Str("high")]),
   Obj([count |-> Num(0)])}
DetectTexts == {Unreadable, Garbage} \cup {JsonText(v) : v \in DetectValues}

\* response bodies of /api/iot
IotValues ==
  {JNull,
   Obj([distance |-> Num(116), alert |-> Str("SAFE"), recommended_action |-> Str("Maintain speed")])}
IotTexts == {Garbage} \cup {JsonText(v) : v \in IotValues}
\* status codes the sensor service answers with
IotCodes == {200, 503}

\* a request in flight: the endpoint, the trigger and the activation it comes
\* from, which of the trigger's listeners sent it, and the distance in its body
DetectRequest(t, n, k) ==
  [ep |-> "/api/detect", from |-> t, run |-> n, listener |-> k, distance |-> Undef]
IotRequest(t, n, d) ==
  [ep |-> "/api/iot", from |-> t, run |-> n, listener |-> 1, distance |-> Stringified(d)]
Pending(t, ep) == {r \in net : r.from = t /\ r.ep = ep}

\* the check of line 119 without its test of files.length
NoFileChosenLax(fileInput, fl) == fileInput = NullEl

\* !fileInput || !fileInput.files || fileInput.files.length === 0
NoFileChosen(fileInput, fl) ==
  \/ fileInput = NullEl
  \/ "input[type=file]" \notin StaticSels(fileInput)
  \/ fl[fileInput] = 0

\* the status shown when the handler starts
StartStatus(u, b) == setStatus(u, b.statusEl, Processing, "processing")

\* the warning of lines 120-121
WarnNoFile(u, b) == setStatus(u, b.statusEl, ChooseImage, "warning")

\* previewEl.src = URL.createObjectURL(f); previewEl.style.display = "block"
\* (made: whether createObjectURL returned rather than threw)
ShowPreview(u, b, made) ==
  IF b.previewEl = NullEl \/ ~made THEN u
  ELSE [u EXCEPT !.imgSrc[b.previewEl] = <<"blob:preview">>, !.display[b.previewEl] = "block"]

\* a handler that leaves the trigger enabled while it runs
DisableTriggerNot(u, t) == u

\* btn.disabled = true
DisableTrigger(u, t) == [u EXCEPT !.disabled[t] = TRUE]

\* an error exit that also resets the metadata area
FailRunReset(u, t, b, html) ==
  LET v == [setStatus(u, b.statusEl, html, "error") EXCEPT !.disabled[t] = FALSE]
  IN  IF b.metaEl = NullEl THEN v ELSE [v EXCEPT !.innerHTML[b.metaEl] = Empty]

\* an error exit: the status of the failure kind, then btn.disabled = false
FailRun(u, t, b, html) ==
  [setStatus(u, b.statusEl, html, "error") EXCEPT !.disabled[t] = FALSE]

\* the fields read from the parsed response
OutImg(json) ==
  LogicalOr(Get(json, "output_image"),
            LogicalOr(Get(json, "annotated"), LogicalOr(Get(json, "image"), JNull)))
Count(json) ==
  Coalesce(Get(json, "vehicle_count"),
           Coalesce(Get(json, "count"), Coalesce(Get(json, "vehicles"), JNull)))
Risk(json) == LogicalOr(Get(json, "risk_level"), LogicalOr(Get(json, "risk"), JNull))

\* lines 177-188: status, metadata and annotated output
Present(u, b, json) ==
  LET u1 == setStatus(u, b.statusEl, Completed, "ok")
      u2 == IF b.metaEl = NullEl THEN u1
            ELSE [u1 EXCEPT !.innerHTML[b.metaEl] = MetaHtml(Count(json), Risk(json))]
  IN  IF b.annotatedEl = NullEl THEN u2
      ELSE IF Truthy(OutImg(json))
        THEN [u2 EXCEPT !.imgSrc[b.annotatedEl] = <<Text(OutImg(json))>>,
                        !.display[b.annotatedEl] = "block"]
        ELSE [u2 EXCEPT !.display[b.annotatedEl] = "none"]

\* a sensor step taken for a truthy count only
RunsIotTruthy(b, json) == Truthy(Count(json)) /\ b.iotEl # NullEl

\* count !== null && iotEl
RunsIot(b, json) == Count(json).t # "null" /\ b.iotEl # NullEl

\* a sensor step whose failure is reported as a failure of the run
ShowIotFatal(u, b, iotResp) ==
  IF Truthy(iotResp) THEN [u EXCEPT !.innerHTML[b.iotEl] = IotHtml(iotResp)]
  ELSE setStatus([u EXCEPT !.innerHTML[b.iotEl] = IotFailed], b.statusEl, NetworkError, "error")

\* lines 194-198: the sensor-output slot
ShowIot(u, b, iotResp) ==
  [u EXCEPT !.innerHTML[b.iotEl] = IF Truthy(iotResp) THEN IotHtml(iotResp) ELSE IotFailed]

\* a refresh that appends its parameter to the whole src
RECURSIVE RefreshEachAppend(_, _, _)
RefreshEachAppend(imgs, src, now) ==
  IF imgs = <<>> THEN src
  ELSE IF src[Head(imgs)] = <<>> THEN src
  ELSE RefreshEachAppend(Tail(imgs),
                         [src EXCEPT ![Head(imgs)] = Append(@, "t=" \o ToString(now))], now)

\* refreshMetricsThumbnails over imgs at time now; an image without a src
\* attribute makes getAttribute("src").split throw, which ends the loop
RECURSIVE RefreshEach(_, _, _)
RefreshEach(imgs, src, now) ==
  IF imgs = <<>> THEN src
  ELSE IF src[Head(imgs)] = <<>> THEN src
  ELSE RefreshEach(Tail(imgs),
                   [src EXCEPT ![Head(imgs)] = <<Head(@), "t=" \o ToString(now)>>], now)

refreshMetricsThumbnails(u, now) ==
  [u EXCEPT !.imgSrc = RefreshEach(docAll(".metrics-thumb", order, u.className), u.imgSrc, now)]

\* lines 201-204: the refresh, then btn.disabled = false
FinishRun(u, t, now) ==
  [refreshMetricsThumbnails(u, now) EXCEPT !.disabled[t] = FALSE]

\* values Date.now() may return next
Nows == {clock, IF clock < MaxTime THEN clock + 1 ELSE clock}

Apply(u) ==
  /\ innerHTML' = u.innerHTML
  /\ className' = u.className
  /\ imgSrc' = u.imgSrc
  /\ display' = u.display
  /\ disabled' = u.disabled

\* the elements of binding b among els, as a set without null
Wrote(t, els) == [e \in DOMAIN writers |-> IF e \in els THEN writers[e] \cup {t} ELSE writers[e]]

TotalClicks == clicks["b1"] + clicks["b2"]

\* a handler that sends the sensor request along with the detection request
StartBoth(t) ==
  {DetectRequest(t, clicks[t] + 1, k) : k \in 1..listeners[t]}
    \cup {IotRequest(t, clicks[t] + 1, Num(140))}

\* line 145: what the handler sends before its first await, once for each
\* listener the click reaches
StartDetect(t) == {DetectRequest(t, clicks[t] + 1, k) : k \in 1..listeners[t]}

\* lines 114-145: from the click to the first await
Click(t) ==
  /\ InDoc(t, order)
  /\ listeners[t] > 0
  /\ ~ disabled[t]
  /\ TotalClicks < MaxClicks
  /\ clicks' = [clicks EXCEPT ![t] = @ + 1]
  /\ LET b == bind[t]
         u0 == StartStatus(UI, b)
     IN  IF NoFileChosen(b.fileInput, files)
         THEN /\ Apply(WarnNoFile(u0, b))
              /\ run' = [run EXCEPT ![t] = [NoRun EXCEPT !.end = "nofile"]]
              /\ writers' = Wrote(t, {b.statusEl})
              /\ UNCHANGED <<pc, net>>
         ELSE \E made \in (IF b.previewEl = NullEl THEN {FALSE} ELSE BOOLEAN) :
              /\ Apply(DisableTrigger(ShowPreview(u0, b, made), t))
              /\ net' = net \cup StartDetect(t)
              /\ pc' = [pc EXCEPT ![t] = "awaitDetect"]
              /\ run' = [run EXCEPT ![t] = Started]
              /\ writers' = Wrote(t, {b.statusEl} \cup (IF made THEN {b.previewEl} ELSE {}))
  /\ UNCHANGED <<order, parent, files, tvAttached, listeners, bind, clock>>

\* lines 145-153 and 163-167: fetch("/api/detect") settles; code 0 stands for
\* a rejected fetch
DetectSettles(t) ==
  /\ pc[t] = "awaitDetect"
  /\ \E r \in Pending(t, "/api/detect"), code \in {0} \cup HttpCodes :
       /\ net' = net \ {r}
       /\ IF code = 0
          THEN /\ Apply(FailRun(UI, t, bind[t], NetworkError))
               /\ pc' = [pc EXCEPT ![t] = "idle"]
               /\ run' = [run EXCEPT ![t].end = "network"]
               /\ writers' = Wrote(t, {bind[t].statusEl})
          ELSE /\ pc' = [pc EXCEPT ![t] = IF RespOk(code) THEN "awaitText" ELSE "awaitErrText"]
               /\ run' = [run EXCEPT ![t].code = code]
               /\ UNCHANGED <<innerHTML, className, imgSrc, display, disabled, writers>>
  /\ UNCHANGED <<order, parent, files, tvAttached, listeners, bind, clock, clicks>>

\* lines 147-151: resp.text().catch(()=>"") of a non-ok response settles
ErrTextSettles(t) ==
  /\ pc[t] = "awaitErrText"
  /\ Apply(FailRun(UI, t, bind[t], ServerError(run[t].code)))
  /\ pc' = [pc EXCEPT ![t] = "idle"]
  /\ run' = [run EXCEPT ![t].end = "server"]
  /\ writers' = Wrote(t, {bind[t].statusEl})
  /\ UNCHANGED <<order, parent, files, tvAttached, listeners, bind, net, clock, clicks>>

\* line 193: what the sensor step is asked, once the detection result is
\* presented
StartIot(t, json) == {IotRequest(t, clicks[t], Distance(Count(json)))}

\* lines 155-204: resp.text() of an ok response settles, up to the next await
\* or the end of the run
TextSettlesOf(t, texts) ==
  /\ pc[t] = "awaitText"
  /\ \E txt \in texts :
       LET b == bind[t]
           json == txt.val
       IN  IF ~ txt.read
           THEN /\ Apply(FailRun(UI, t, b, NetworkError))
                /\ pc' = [pc EXCEPT ![t] = "idle"]
                /\ run' = [run EXCEPT ![t].txt = txt, ![t].end = "network"]
                /\ writers' = Wrote(t, {b.statusEl})
                /\ UNCHANGED <<net, clock>>
           ELSE IF ~ txt.json
           THEN /\ Apply(FailRun(UI, t, b, InvalidResponse))
                /\ pc' = [pc EXCEPT ![t] = "idle"]
                /\ run' = [run EXCEPT ![t].txt = txt, ![t].end = "invalid"]
                /\ writers' = Wrote(t, {b.statusEl})
                /\ UNCHANGED <<net, clock>>
           ELSE IF json.t = "null"
           THEN \* json.output_image throws a TypeError nothing catches
                /\ pc' = [pc EXCEPT ![t] = "thrown"]
                /\ run' = [run EXCEPT ![t].txt = txt, ![t].end = "thrown"]
                /\ UNCHANGED <<innerHTML, className, imgSrc, display, disabled, net,
                               clock, writers>>
           ELSE IF RunsIot(b, json)
           THEN /\ Apply(Present(UI, b, json))
                /\ net' = net \cup StartIot(t, json)
                /\ pc' = [pc EXCEPT ![t] = "awaitIot"]
                /\ run' = [run EXCEPT ![t].txt = txt]
                /\ writers' = Wrote(t, {b.statusEl, b.metaEl, b.annotatedEl})
                /\ UNCHANGED clock
           ELSE \E now \in Nows :
                /\ Apply(FinishRun(Present(UI, b, json), t, now))
                /\ clock' = now
                /\ pc' = [pc EXCEPT ![t] = "idle"]
                /\ run' = [run EXCEPT ![t].txt = txt, ![t].end = "done"]
                /\ writers' = Wrote(t, {b.statusEl, b.metaEl, b.annotatedEl})
                /\ UNCHANGED net
  /\ UNCHANGED <<order, parent, files, tvAttached, listeners, bind, clicks>>

TextSettles(t) == TextSettlesOf(t, DetectTexts)

\* what callIot returns: the parsed body, or null for a response that is not
\* ok, a rejected fetch or a body json() rejects
IotResp(code, txt) ==
  IF code # 0 /\ RespOk(code) /\ txt.read /\ txt.json THEN txt.val ELSE JNull

\* lines 194-204: the run from the value of callIot to its end
EndWithIot(t, code, txt) ==
  \E now \in Nows :
  /\ Apply(FinishRun(ShowIot(UI, bind[t], IotResp(code, txt)), t, now))
  /\ clock' = now
  /\ pc' = [pc EXCEPT ![t] = "idle"]
  /\ run' = [run EXCEPT ![t].iotCode = code, ![t].iotTxt = txt, ![t].end = "done"]
  /\ writers' = Wrote(t, {bind[t].iotEl})

\* lines 58-71: fetch("/api/iot") settles; code 0 stands for a rejected fetch
IotSettles(t) ==
  /\ pc[t] = "awaitIot"
  /\ \E r \in Pending(t, "/api/iot"), code \in {0} \cup IotCodes :
       /\ net' = net \ {r}
       /\ IF code # 0 /\ RespOk(code)
          THEN /\ pc' = [pc EXCEPT ![t] = "awaitIotJson"]
               /\ run' = [run EXCEPT ![t].iotCode = code]
               /\ UNCHANGED <<innerHTML, className, imgSrc, display, disabled, clock, writers>>
          ELSE EndWithIot(t, code, Unreadable)
  /\ UNCHANGED <<order, parent, files, tvAttached, listeners, bind, clicks>>

\* line 67: res.json() settles
IotJsonSettles(t) ==
  /\ pc[t] = "awaitIotJson"
  /\ \E txt \in IotTexts : EndWithIot(t, run[t].iotCode, txt)
  /\ UNCHANGED <<order, parent, files, tvAttached, listeners, bind, net, clicks>>

Next ==
  \/ attachDetectHandlers
  \/ \E e \in FileInputs : SelectFile(e)
  \/ \E e \in FileInputs : ClearFile(e)
  \/ \E e \in Insertable, p \in Containers : InsertElement(e, p)
  \/ \E t \in Triggers : Click(t)
  \/ \E t \in Triggers : DetectSettles(t)
  \/ \E t \in Triggers : ErrTextSettles(t)
  \/ \E t \in Triggers : TextSettles(t)
  \/ \E t \in Triggers : IotSettles(t)
  \/ \E t \in Triggers : IotJsonSettles(t)

Spec == Init /\ [][Next]_vars

\* ------------------------------------------------- the layouts of a page
\* a form inside a card: legacy status before the marked one, the metadata
\* element outside the form
NestedCard ==
  Page(<<"body", "c1", "f1", "in1", "b1", "st2", "st1", "an1", "me1">>,
       In("body", {"c1"}) @@ In("c1", {"f1", "me1"}) @@ In("f1", {"in1", "b1", "st2", "st1", "an1"}))

\* a card inside a form: no status element, legacy metadata before the
\* marked one, the sensor-output slot in the form but outside the card
FormOverCard ==
  Page(<<"body", "f2", "c1", "in2", "b2", "me2", "me1", "io2">>,
       In("body", {"f2"}) @@ In("f2", {"c1", "io2"}) @@ In("c1", {"in2", "b2", "me2", "me1"}))

BindPages == {NestedCard, FormOverCard, BareAndCard}

InitBind == InitOn(BindPages)

SpecBind == InitBind /\ [][Next]_vars

\* ------------------------------------------ the presentation of a result
\* a page with one trigger, bound to a file input, a status, a metadata and
\* an annotated-output element, and three thumbnails, the second of them
\* without a src attribute
PresentPage ==
  Page(<<"body", "th1", "th2", "th3", "f1", "in1", "b1", "st1", "an1", "me1">>,
       In("body", {"th1", "th2", "th3", "f1"}) @@ In("f1", {"in1", "b1", "st1", "an1", "me1"}))

\* detection responses that name their fields by several aliases, with
\* values that are falsy or null among them
AliasValues ==
  {JNull,
   Obj(NoFields),
   Obj([vehicle_count |-> Num(3), count |-> Num(5), risk_level |-> Str("high"), risk |-> Str("low"),
        output_image |-> Str("/out/a.jpg"), annotated |-> Str("/out/b.jpg")]),
   Obj([vehicle_count |-> Num(0), count |-> Num(5), risk |-> Str("low"), image |-> Str("/out/c.jpg")]),
   Obj([count |-> Str(""), vehicles |-> Num(2), risk_level |-> Str(""), risk |-> Str("low")]),
   Obj([vehicle_count |-> JNull, vehicles |-> Num(2), risk_level |-> Str(""),
        output_image |-> Str(""), annotated |-> Str("/out/b.jpg")]),
   Obj([vehicles |-> Bool(FALSE), risk_level |-> Bool(FALSE), annotated |-> Num(0), image |-> Str("/out/c.jpg")])}
AliasTexts == {JsonText(v) : v \in AliasValues}

InitPresent == InitOn({PresentPage})

TextSettlesAlias(t) == TextSettlesOf(t, AliasTexts)

NextPresent ==
  \/ \E e \in FileInputs : SelectFile(e)
  \/ \E t \in Triggers : Click(t)
  \/ \E t \in Triggers : DetectSettles(t)
  \/ \E t \in Triggers : ErrTextSettles(t)
  \/ \E t \in Triggers : TextSettlesAlias(t)

SpecPresent == InitPresent /\ [][NextPresent]_vars

\* ------------------------------------------ the distance of the sensor step
\* a page with one trigger, bound to a file input, a status and a
\* sensor-output slot
DistancePage ==
  Page(<<"body", "f1", "in1", "b1", "st1", "io1">>,
       In("body", {"f1"}) @@ In("f1", {"in1", "b1", "st1", "io1"}))

\* detection responses that carry a vehicle count: every integer of a range
\* that reaches past the floor of the distance, a large one, a negative one
\* and one that is not an integer
CountValues ==
  {Obj([vehicle_count |-> Num(c)]) : c \in (0..MaxCount) \cup {100, -1}}
    \cup {Obj([vehicle_count |-> Tenths(5)])}
CountTexts == {JsonText(v) : v \in CountValues}

InitDistance == InitOn({DistancePage})

TextSettlesCount(t) == TextSettlesOf(t, CountTexts)

NextDistance ==
  \/ \E e \in FileInputs : SelectFile(e)
  \/ \E t \in Triggers : Click(t)
  \/ \E t \in Triggers : DetectSettles(t)
  \/ \E t \in Triggers : ErrTextSettles(t)
  \/ \E t \in Triggers : TextSettlesCount(t)
  \/ \E t \in Triggers : IotSettles(t)
  \/ \E t \in Triggers : IotJsonSettles(t)

SpecDistance == InitDistance /\ [][NextDistance]_vars

\* ------------------------------------------------------------ properties
\* the step activates trigger t
Activated(t) == clicks'[t] = clicks[t] + 1
\* the step is one of the handler of trigger t
StepOf(t) == clicks'[t] # clicks[t] \/ pc'[t] # pc[t] \/ run'[t] # run[t]
\* the run of trigger t is over
RunOver(t) == pc[t] \in {"idle", "thrown"}
\* the sensor requests of trigger t in flight
IotPending(t, n) == {r \in n : r.from = t /\ r.ep = "/api/iot"}
ErrorEnds == {"nofile", "network", "server", "invalid"}

\* C1: whatever the detection and the sensor call answer, no failure is thrown
\* uncaught and a run that is over has left its trigger enabled.
C1_RunEndsEnabled ==
  \A t \in Triggers : run[t].end # "thrown" /\ (RunOver(t) => ~ disabled[t])

\* C2: activating a trigger whose file input is missing or holds no file
\* issues no request, ends with the 'choose an image' warning in the status
\* and leaves the trigger enabled.
C2_NoFileNoRequest ==
  [][\A t \in Triggers :
       Activated(t) /\ (bind[t].fileInput = NullEl \/ files[bind[t].fileInput] = 0)
       => /\ net' = net
          /\ innerHTML'[bind[t].statusEl] = Html("Please choose an image first", "", "", "")
          /\ className'[bind[t].statusEl] = "warning"
          /\ ~ disabled'[t]
          /\ pc'[t] = "idle"
          /\ run'[t].end = "nofile"]_vars

\* one trigger without a file input and one with an empty file input have both
\* been activated
C2_Witness ==
  \E t, u \in Triggers :
    /\ bind[t].fileInput = NullEl /\ run[t].end = "nofile"
    /\ bind[u].fileInput # NullEl /\ run[u].end = "nofile"
    /\ innerHTML[bind[u].statusEl] = ChooseImage
    /\ net = {}

\* C3: a run that ends on a detection failure shows the message of its kind:
\* 'network error' for a transport failure, 'server error' with the returned
\* status code for a non-success status, 'invalid response' for a success
\* status with an unparseable body; and the trigger is enabled again.
C3_FailureKinds ==
  [][\A t \in Triggers :
       pc[t] \in {"awaitDetect", "awaitErrText", "awaitText"} /\ pc'[t] = "idle"
         /\ run'[t].end # "done"
       => LET r == run'[t]
              st == bind[t].statusEl
              transport == r.code = 0 \/ (RespOk(r.code) /\ ~ r.txt.read)
              server == r.code # 0 /\ ~ RespOk(r.code)
              invalid == RespOk(r.code) /\ r.txt.read /\ ~ r.txt.json
          IN  /\ transport \/ server \/ invalid
              /\ transport => innerHTML'[st] = Html("Network error", "", "", "")
              /\ server => innerHTML'[st] = Html("Server error", ToString(r.code), "", "")
              /\ invalid => innerHTML'[st] = Html("Invalid server response", "", "", "")
              /\ className'[st] = "error"
              /\ ~ disabled'[t]]_vars

\* a run has ended on status 404 and another on an unparseable body, each with
\* its own message
C3_Witness ==
  \E t, u \in Triggers :
    /\ run[t].end = "server" /\ run[t].code = 404 /\ RunOver(t) /\ ~ disabled[t]
    /\ innerHTML[bind[t].statusEl].a = "404"
    /\ run[u].end = "invalid" /\ RunOver(u) /\ ~ disabled[u]
    /\ innerHTML[bind[u].statusEl] = InvalidResponse

\* C4: the steps of a run that ends in an error (no file, transport failure,
\* non-success status, unparseable body) leave the metadata, annotated-output
\* and sensor-output elements as they were, issue no sensor request and never
\* turn the status into the success indicator.
C4_NoPartialResult ==
  [][\A t \in Triggers :
       /\ StepOf(t)
       /\ \/ pc'[t] \in {"awaitDetect", "awaitErrText", "awaitText"}
          \/ pc'[t] = "idle" /\ run'[t].end \in ErrorEnds
       => LET b == bind[t]
          IN  /\ b.metaEl # NullEl => innerHTML'[b.metaEl] = innerHTML[b.metaEl]
              /\ b.iotEl # NullEl => innerHTML'[b.iotEl] = innerHTML[b.iotEl]
              /\ b.annotatedEl # NullEl =>
                   /\ imgSrc'[b.annotatedEl] = imgSrc[b.annotatedEl]
                   /\ display'[b.annotatedEl] = display[b.annotatedEl]
              /\ IotPending(t, net') = {}
              /\ className'[b.statusEl] = "ok" => className[b.statusEl] = "ok"
              /\ run'[t].end \in ErrorEnds => className'[b.statusEl] \in {"warning", "error"}]_vars

\* a run ended in an error after an earlier run of the trigger had presented
\* its results, which are still there
C4_Witness ==
  \E t \in Triggers :
    /\ run[t].end \in {"network", "server", "invalid"} /\ RunOver(t)
    /\ className[bind[t].statusEl] = "error"
    /\ bind[t].metaEl # NullEl /\ innerHTML[bind[t].metaEl].k = "Vehicles/Risk"
    /\ bind[t].iotEl # NullEl /\ innerHTML[bind[t].iotEl] # Empty

\* the elements the binding of t holds for output
BindingEls(t) ==
  {bind[t].statusEl, bind[t].previewEl, bind[t].annotatedEl, bind[t].metaEl, bind[t].iotEl}
    \ {NullEl}
Exclusive(t, e) == \A u \in Triggers \ {t} : e \notin BindingEls(u)

\* the sensor step of run r failed: transport, status or parse
SensorFailed(r) ==
  r.iotCode = 0 \/ ~ RespOk(r.iotCode) \/ ~ r.iotTxt.read \/ ~ r.iotTxt.json

\* the metadata and annotated output of trigger t, where no other binding
\* holds them, show the result json
ShowsResult(t, json, h, src, disp) ==
  LET b == bind[t]
  IN  /\ b.metaEl # NullEl /\ Exclusive(t, b.metaEl)
           => h[b.metaEl] = MetaHtml(Count(json), Risk(json))
      /\ b.annotatedEl # NullEl /\ Exclusive(t, b.annotatedEl)
           => IF Truthy(OutImg(json))
              THEN disp[b.annotatedEl] = "block" /\ src[b.annotatedEl] = <<Text(OutImg(json))>>
              ELSE disp[b.annotatedEl] = "none"

\* C5: a run whose sensor step fails (transport failure, non-success status,
\* parse failure) still ends as done with the trigger enabled; that step
\* writes the failure placeholder into the sensor-output slot and nothing into
\* the status, the metadata or the annotated output, which keep the success
\* indicator and the detection result.
C5_SensorFailureContained ==
  [][\A t \in Triggers :
       pc[t] \in {"awaitIot", "awaitIotJson"} /\ pc'[t] = "idle" /\ SensorFailed(run'[t])
       => LET b == bind[t]
              st == b.statusEl
          IN  /\ run'[t].end = "done"
              /\ ~ disabled'[t]
              /\ innerHTML'[b.iotEl] = Html("IoT sim failed", "", "", "")
              /\ innerHTML'[st] = innerHTML[st] /\ className'[st] = className[st]
              /\ b.metaEl # NullEl => innerHTML'[b.metaEl] = innerHTML[b.metaEl]
              /\ b.annotatedEl # NullEl =>
                   /\ imgSrc'[b.annotatedEl] = imgSrc[b.annotatedEl]
                   /\ display'[b.annotatedEl] = display[b.annotatedEl]
              /\ Exclusive(t, st) =>
                   /\ innerHTML'[st] = Html("<b>Detection completed</b>", "", "", "")
                   /\ className'[st] = "ok"
              /\ ShowsResult(t, run'[t].txt.val, innerHTML', imgSrc', display')]_vars

\* a run has ended as done after a rejected sensor fetch: the slot holds the
\* placeholder, the status the success indicator, the metadata the count
C5_Witness ==
  \E t \in Triggers :
    /\ run[t].end = "done" /\ RunOver(t) /\ ~ disabled[t] /\ run[t].iotCode = 0
    /\ bind[t].iotEl # NullEl /\ innerHTML[bind[t].iotEl] = IotFailed
    /\ className[bind[t].statusEl] = "ok"
    /\ bind[t].metaEl # NullEl /\ innerHTML[bind[t].metaEl].a = "12"

\* C6: a trigger is disabled in every state in which its run is suspended, at
\* most one request of a trigger is in flight, and no activation of a trigger
\* happens while an earlier run of it is suspended.
C6_OneRunPerTrigger ==
  [][\A t \in Triggers :
       /\ ~ RunOver(t) => disabled[t]
       /\ pc'[t] \notin {"idle", "thrown"} => disabled'[t]
       /\ Cardinality({r \in net' : r.from = t}) <= 1
       /\ Activated(t) => RunOver(t)]_vars

\* a run is suspended on the sensor call, its trigger disabled, while a file
\* is selected and an activation is left
C6_Witness ==
  \E t \in Triggers :
    /\ pc[t] = "awaitIot" /\ disabled[t] /\ clicks[t] = 1 /\ TotalClicks < MaxClicks
    /\ bind[t].fileInput # NullEl /\ files[bind[t].fileInput] = 1

\* C7: however often attachDetectHandlers runs, and whenever triggers are
\* inserted, no trigger has more than one listener, an invocation that binds
\* anything leaves every trigger of the page with exactly one, and one
\* activation with a file sends exactly one detection request.
C7_BoundOnce ==
  [][\A t \in Triggers :
       /\ listeners[t] <= 1 /\ listeners'[t] <= 1
       /\ tvAttached'[t] <=> listeners'[t] = 1
       /\ listeners' # listeners => (InDoc(t, order') => listeners'[t] = 1)
       /\ Activated(t) /\ bind[t].fileInput # NullEl /\ files[bind[t].fileInput] > 0
            => /\ Cardinality(net' \ net) = 1
               /\ \A r \in net' \ net : r.ep = "/api/detect" /\ r.from = t]_vars

\* a trigger inserted into the form of the first one after load has been
\* bound once and its activation has sent one request
C7_Witness ==
  /\ InDoc("c1", order) /\ parent["b2"] = "f1" /\ parent["b1"] = "f1"
  /\ listeners["b1"] = 1 /\ listeners["b2"] = 1
  /\ pc["b2"] = "awaitDetect"
  /\ Cardinality(Pending("b2", "/api/detect")) = 1

\* C8: a sensor request is only ever sent by the step that has received the
\* body of an ok detection response of the same run, parsed it and presented
\* it: status set to the success indicator, metadata and annotated output
\* updated.
C8_SensorAfterDetection ==
  [][\A t \in Triggers :
       IotPending(t, net') \ IotPending(t, net) # {}
       => LET b == bind[t]
              r == run'[t]
          IN  /\ pc[t] = "awaitText"
              /\ RespOk(r.code) /\ r.txt.read /\ r.txt.json
              /\ Pending(t, "/api/detect") = {}
              /\ innerHTML'[b.statusEl] = Html("<b>Detection completed</b>", "", "", "")
              /\ className'[b.statusEl] = "ok"
              /\ b.metaEl # NullEl => innerHTML'[b.metaEl] = MetaHtml(Count(r.txt.val), Risk(r.txt.val))
              /\ b.annotatedEl # NullEl =>
                   display'[b.annotatedEl] = IF Truthy(OutImg(r.txt.val)) THEN "block" ELSE "none"]_vars

\* a run is suspended on its sensor request, the detection result presented
C8_Witness ==
  \E t \in Triggers :
    /\ pc[t] = "awaitIot" /\ IotPending(t, net) # {}
    /\ run[t].txt.json /\ className[bind[t].statusEl] = "ok"

\* the nearest enclosing form, else the nearest enclosing card, of a trigger
Home(t) ==
  OrElse(closest(t, "form", parent, className), closest(t, ".card", parent, className))
\* two triggers in containers neither of which holds the other
Apart(t, u) ==
  /\ Home(t) # NullEl /\ Home(u) # NullEl /\ Home(t) # Home(u)
  /\ ~ IsDescendant(Home(t), Home(u), parent) /\ ~ IsDescendant(Home(u), Home(t), parent)

\* the status a run that took exit r.end leaves, from what the run received
StatusAlone(r) ==
  CASE r.end = "nofile" -> Html("Please choose an image first", "", "", "")
    [] r.end = "network" -> Html("Network error", "", "", "")
    [] r.end = "server" -> Html("Server error", ToString(r.code), "", "")
    [] r.end = "invalid" -> Html("Invalid server response", "", "", "")
    [] r.end = "thrown" -> Html("<em>Processing</em>", "", "", "")
    [] r.end = "done" -> Html("<b>Detection completed</b>", "", "", "")

\* C9: of two bound triggers in disjoint containers, the status, metadata,
\* annotated-output and sensor-output elements of each are written by its own
\* handler only, and when its run is over they hold what that run alone
\* leaves: the status of its exit and, after a presented result, the
\* metadata, the annotated output and the outcome of the sensor step.
C9_DisjointRunsIndependent ==
  \A t, u \in Triggers :
    t # u /\ listeners[t] > 0 /\ listeners[u] > 0 /\ Apart(t, u)
    => LET b == bind[t]
           r == run[t]
       IN  /\ \A e \in {b.statusEl, b.annotatedEl, b.metaEl, b.iotEl} \ {NullEl} :
                writers[e] \subseteq {t}
           /\ RunOver(t) /\ r.end # "none" =>
                /\ innerHTML[b.statusEl] = StatusAlone(r)
                /\ r.end = "done" =>
                     /\ b.metaEl # NullEl => innerHTML[b.metaEl] = MetaHtml(Count(r.txt.val), Risk(r.txt.val))
                     /\ b.annotatedEl # NullEl =>
                          display[b.annotatedEl] = IF Truthy(OutImg(r.txt.val)) THEN "block" ELSE "none"
                     /\ RunsIot(b, r.txt.val) =>
                          innerHTML[b.iotEl] =
                            IF Truthy(IotResp(r.iotCode, r.iotTxt))
                            THEN IotHtml(IotResp(r.iotCode, r.iotTxt)) ELSE IotFailed

\* the runs of two triggers in disjoint forms overlap: one is suspended on
\* its sensor call, the other on its detection call
C9_Witness ==
  \E t, u \in Triggers :
    /\ t # u /\ listeners[t] > 0 /\ listeners[u] > 0 /\ Apart(t, u)
    /\ pc[t] = "awaitIot" /\ pc[u] = "awaitDetect"

\* C10: the bindings of two distinct bound triggers hold no element in
\* common, whatever the layout of the page.
C10_NoSharedElements ==
  \A t, u \in Triggers :
    t # u /\ listeners[t] > 0 /\ listeners[u] > 0 => BindingEls(t) \cap BindingEls(u) = {}

\* the state of the specified run machine that trigger t is in between two
\* steps of its handler (Validating and Presenting are passed within a step)
Phase(p, r) ==
  CASE p \in {"awaitDetect", "awaitErrText", "awaitText"} -> "AwaitingDetection"
    [] p \in {"awaitIot", "awaitIotJson"} -> "AwaitingSensor"
    [] p = "idle" /\ r.end = "none" -> "Idle"
    [] p = "idle" /\ r.end = "done" -> "Done"
    [] p = "idle" /\ r.end \in ErrorEnds -> "ErrorTerminal"
    [] OTHER -> "Outside"
\* the moves of the specified machine, between the states a run rests in
MachineMoves ==
  {<<from, "AwaitingDetection">> : from \in {"Idle", "Done", "ErrorTerminal"}}
    \cup {<<from, "ErrorTerminal">> : from \in {"Idle", "Done", "ErrorTerminal", "AwaitingDetection"}}
    \cup {<<"AwaitingDetection", to>> : to \in {"AwaitingDetection", "AwaitingSensor", "Done"}}
    \cup {<<"AwaitingSensor", to>> : to \in {"AwaitingSensor", "Done"}}

\* C11: every step of a run is a move of the specified machine: an error
\* exit is taken from validation or from the detection call only, the result
\* is presented, and the sensor step entered, only with a parsed detection
\* response, and a run that is over has ended in Done or in ErrorTerminal.
C11_FollowsMachine ==
  [][\A t \in Triggers :
       StepOf(t) =>
         /\ <<Phase(pc[t], run[t]), Phase(pc'[t], run'[t])>> \in MachineMoves
         /\ Phase(pc'[t], run'[t]) \in {"AwaitingSensor", "Done"} => run'[t].txt.json
         /\ Phase(pc[t], run[t]) = "AwaitingDetection"
              /\ Phase(pc'[t], run'[t]) \in {"AwaitingSensor", "Done"}
            => className'[bind[t].statusEl] = "ok"]_vars

\* the response carries a vehicle count under one of its names
HasCount(json) ==
  \E k \in {"vehicle_count", "count", "vehicles"} : Get(json, k).t \notin {"undefined", "null"}
\* the step presents the detection result of trigger t
Presents(t) ==
  /\ pc[t] = "awaitText"
  /\ pc'[t] \in {"awaitIot", "idle"}
  /\ run'[t].txt.json
  /\ run'[t].end \in {"running", "done"}

\* C12: the step that presents a detection result sends one sensor request
\* and suspends the run on it exactly when the result carries a vehicle count
\* (0 included) and the binding has a sensor-output slot; otherwise the same
\* step ends the run in Done and no sensor request is sent.
C12_SensorStepIff ==
  [][\A t \in Triggers :
       Presents(t) =>
         LET sent == IotPending(t, net') \ IotPending(t, net)
             sensor == HasCount(run'[t].txt.val) /\ bind[t].iotEl # NullEl
         IN  /\ sensor => Cardinality(sent) = 1 /\ pc'[t] = "awaitIot" /\ run'[t].end = "running"
             /\ ~ sensor => sent = {} /\ pc'[t] = "idle" /\ run'[t].end = "done"
             /\ IotPending(t, net) = {}]_vars

\* a result with count 0 has put a run on its sensor request, and a result
\* with a count has ended a run whose binding has no sensor-output slot
C12_Witness ==
  \E t, u \in Triggers :
    /\ pc[t] = "awaitIot" /\ Cardinality(IotPending(t, net)) = 1
    /\ Get(run[t].txt.val, "count") = Num(0)
    /\ bind[u].iotEl = NullEl /\ run[u].end = "done" /\ HasCount(run[u].txt.val)
    /\ IotPending(u, net) = {}

\* max(5, 140 - 2*c) for an integer c
FlooredDistance(c) == IF 140 - 2 * c > 5 THEN 140 - 2 * c ELSE 5

\* C13: the sensor request of a run whose detection result carries the
\* non-negative integer count c asks for the distance max(5, round(140 - 2c)):
\* 140 for 0, 116 for 12, 5 for 100, always within 5..140 and never above the
\* distance of a smaller count.
C13_DistanceOfCount ==
  \A t \in Triggers : \A r \in IotPending(t, net) :
    LET c == Get(run[t].txt.val, "vehicle_count")
        i == c.n \div 10
    IN  c.t = "number" /\ c.n >= 0 /\ c.n % 10 = 0
        => /\ r.distance = Tenths(10 * FlooredDistance(i))
           /\ i = 0 => r.distance = Tenths(1400)
           /\ i = 12 => r.distance = Tenths(1160)
           /\ i = 100 => r.distance = Tenths(50)
           /\ r.distance.n >= 50 /\ r.distance.n <= 1400
           /\ \A j \in 0..i : Distance(Num(j)).n >= r.distance.n

\* the sensor request of a run with count 100 is in flight, asking for the
\* floor of 5
C13_Witness ==
  \E t \in Triggers : \E r \in IotPending(t, net) :
    /\ Get(run[t].txt.val, "vehicle_count") = Num(100)
    /\ r.distance = Num(5)
    /\ pc[t] = "awaitIot"

\* the value of the first of the names that the response has, null when it
\* has none
RECURSIVE FirstPresent(_, _)
FirstPresent(json, names) ==
  IF names = <<>> THEN JNull
  ELSE IF json.t = "object" /\ Head(names) \in DOMAIN json.f THEN json.f[Head(names)]
  ELSE FirstPresent(json, Tail(names))

\* C14: a presented result shows, for the count, the risk and the image, the
\* value of the first of the field's names that the response has, whatever
\* that value is (0, an empty string and false included); vehicle_count
\* goes before count.
C14_FirstPresentAlias ==
  \A t \in Triggers :
    RunOver(t) /\ run[t].txt.json /\ run[t].txt.val.t # "null" =>
      LET json == run[t].txt.val
          b == bind[t]
          count == FirstPresent(json, <<"vehicle_count", "count", "vehicles">>)
          risk == FirstPresent(json, <<"risk_level", "risk">>)
          outImg == FirstPresent(json, <<"output_image", "annotated", "image">>)
      IN  /\ b.metaEl # NullEl =>
               /\ innerHTML[b.metaEl].a = Text(Coalesce(count, Str("N/A")))
               /\ innerHTML[b.metaEl].b = Text(Coalesce(risk, Str("N/A")))
          /\ b.annotatedEl # NullEl /\ Truthy(outImg) => imgSrc[b.annotatedEl] = <<Text(outImg)>>

\* the thumbnails of the document
Thumbs == {e \in ImgElems : InDoc(e, order) /\ className[e] = "metrics-thumb"}
\* the thumbnails a refresh reaches: those no thumbnail without a src
\* attribute precedes
Reached(e) ==
  \A x \in Thumbs : IndexOf(x, order) <= IndexOf(e, order) => imgSrc[x] # <<>>

\* C15: a run whose detection response was parsed leaves by Done only,
\* whatever the sensor step does: its last step refreshes the thumbnails
\* once and enables the trigger, also when the refresh fails, and a run that
\* ends in an error refreshes nothing.
C15_DoneSingleExit ==
  [][\A t \in Triggers :
       StepOf(t) =>
         /\ pc[t] = "awaitText" /\ run'[t].txt.json
            => pc'[t] = "awaitIot" \/ (pc'[t] = "idle" /\ run'[t].end = "done")
         /\ pc[t] \in {"awaitIot", "awaitIotJson"} /\ pc'[t] \notin {"awaitIot", "awaitIotJson"}
            => pc'[t] = "idle" /\ run'[t].end = "done"
         /\ pc[t] # "idle" /\ pc'[t] = "idle" /\ run'[t].end = "done"
            => /\ ~ disabled'[t]
               /\ \A e \in Thumbs :
                    imgSrc'[e] = IF Reached(e) THEN <<imgSrc[e][1], "t=" \o ToString(clock')>>
                                 ELSE imgSrc[e]
         /\ run'[t].end \in ErrorEnds => \A e \in Thumbs : imgSrc'[e] = imgSrc[e]]_vars

\* the response has none of the names, or null under each it has
Absent(json, names) == \A k \in names : Get(json, k).t \in {"undefined", "null"}
\* the image references the response returns
Returned(json) ==
  {Get(json, k).s : k \in {k \in {"output_image", "annotated", "image"} :
                            Get(json, k).t = "string" /\ Get(json, k).s # ""}}

\* C16: once the detection response of a run is parsed, the status shows
\* the success indicator; the metadata element, if bound, shows "N/A" for
\* the count exactly when the response has no count (a count of 0 shows as
\* 0) and "N/A" for the risk exactly when it has no risk; the annotated
\* element, if bound, is shown with a returned reference when there is one
\* and hidden otherwise.
C16_PresentedResult ==
  \A t \in Triggers :
    RunOver(t) /\ run[t].txt.json =>
      LET json == run[t].txt.val
          b == bind[t]
      IN  /\ className[b.statusEl] = "ok"
          /\ innerHTML[b.statusEl] = Html("<b>Detection completed</b>", "", "", "")
          /\ b.metaEl # NullEl =>
               /\ innerHTML[b.metaEl].k = "Vehicles/Risk"
               /\ innerHTML[b.metaEl].a = "N/A" <=> Absent(json, {"vehicle_count", "count", "vehicles"})
               /\ innerHTML[b.metaEl].b = "N/A" <=> Absent(json, {"risk_level", "risk"})
               /\ Get(json, "vehicle_count") = Num(0) => innerHTML[b.metaEl].a = "0"
          /\ b.annotatedEl # NullEl =>
               IF Returned(json) = {}
               THEN display[b.annotatedEl] = "none"
               ELSE /\ display[b.annotatedEl] = "block"
                    /\ Len(imgSrc[b.annotatedEl]) = 1
                    /\ imgSrc[b.annotatedEl][1] \in Returned(json)

\* a run has ended in Done, so the thumbnails have been refreshed
Refreshed == \E t \in Triggers : RunOver(t) /\ run[t].end = "done"

\* C17: whatever refreshes have been performed, the source of every
\* thumbnail starts with the base path of its markup, and once a refresh has
\* been performed it is that base path followed by one timestamp parameter
\* and nothing else.
C17_OneTimestamp ==
  \A e \in Thumbs :
    MarkupSrc(e) # <<>> =>
      /\ imgSrc[e][1] = MarkupSrc(e)[1]
      /\ Refreshed =>
           /\ Len(imgSrc[e]) = 2
           /\ imgSrc[e][2] \in {"t=" \o ToString(k) : k \in 0..clock}

\* what holds of the refresh on every page: the source of every thumbnail
\* starts with the base path of its markup; a refresh stops at the first
\* thumbnail without a src
\* attribute, and once a refresh has been performed each thumbnail before
\* that one has its base path followed by one timestamp parameter and
\* nothing else, while the thumbnails from that one on are as in the markup.
ReachedOneTimestamp ==
  \A e \in Thumbs :
    /\ MarkupSrc(e) # <<>> => imgSrc[e][1] = MarkupSrc(e)[1]
    /\ Reached(e) /\ Refreshed =>
         /\ Len(imgSrc[e]) = 2
         /\ imgSrc[e][2] \in {"t=" \o ToString(k) : k \in 0..clock}
    /\ ~ Reached(e) => imgSrc[e] = MarkupSrc(e)

\* two runs have presented a result, the first with an image and the second
\* without, so the thumbnails were refreshed twice: the first thumbnail
\* carries the one timestamp of the last refresh, the one after the
\* thumbnail without src is untouched
RefreshedTwice ==
  /\ Refreshed /\ clicks["b1"] = 2 /\ clock = 1
  /\ imgSrc["an1"] # <<>> /\ display["an1"] = "none"
  /\ imgSrc["th1"] = <<"/static/metrics.png", "t=1">>
  /\ imgSrc["th2"] = <<>>
  /\ imgSrc["th3"] = <<"/static/roc.png">>

\* the binding b of trigger t is the one the resolution rules give, on the
\* document (ord, par, cls) left by the attachment that made it from a
\* document of elements before
BoundRight(t, before, ord, par, cls, b) ==
  LET form == closest(t, "form", par, cls)
      card == closest(t, ".card", par, cls)
      cont == IF form # NullEl THEN form ELSE IF card # NullEl THEN card ELSE "body"
      made == {"d1", "d2"} \ before
      \* status elements made in the same attachment for triggers after t
      later == {CreatedStatus(u) : u \in {u \in Triggers : InDoc(u, ord) /\ IndexOf(u, ord) > IndexOf(t, ord)}}
                 \cap made
      cands(sel) ==
        {e \in Elems \ later : InDoc(e, ord) /\ IsDescendant(e, cont, par) /\ Matches(e, sel, cls)}
      first(S) == IF S = {} THEN NullEl
                  ELSE CHOOSE e \in S : \A x \in S : IndexOf(e, ord) <= IndexOf(x, ord)
      role(marker, legacy) == IF cands(marker) # {} THEN first(cands(marker)) ELSE first(cands(legacy))
      own == {CreatedStatus(t)} \cap made
      existing == (cands(".tv-status") \cup cands("#status")) \ own
  IN  /\ b.container = cont
      /\ b.previewEl = role(".tv-preview", "#preview")
      /\ b.annotatedEl = role(".tv-annotated", "#resultImg")
      /\ b.metaEl = role(".tv-meta", "#meta")
      /\ b.iotEl = role(".tv-iot", "#iotOutput")
      /\ b.statusEl # NullEl
      /\ b.statusEl = role(".tv-status", "#status")
      /\ IF existing # {}
         THEN b.statusEl \in existing
         ELSE /\ b.statusEl = CreatedStatus(t) /\ b.statusEl \in made
              /\ ord[IndexOf(t, ord) + 1] = b.statusEl
              /\ par[b.statusEl] = par[t]

\* C18: every binding, made when the script loads or by a later attachment,
\* has as container the nearest enclosing form, else the nearest enclosing
\* card, else the document; each role is the first element of the container
\* with the marker class, else the first with the legacy id, else none; the
\* status is an element the container had when it had one, otherwise a new
\* element placed right after the trigger.
C18_BindingResolution ==
  /\ \A t \in Triggers :
       listeners[t] > 0 => BoundRight(t, {e \in Elems : InDoc(e, order)} \ {"d1", "d2"},
                                      order, parent, className, bind[t])
  /\ [][\A t \in Triggers :
          listeners[t] = 0 /\ listeners'[t] > 0
          => BoundRight(t, {e \in Elems : InDoc(e, order)}, order', parent', className', bind'[t])]_vars

\* a trigger inserted into a card around a form has been bound by a later
\* attachment: to the card, and to the marked status inside the form, which
\* a legacy status precedes; the trigger inside the form is bound to the form
C18_Witness ==
  /\ parent["b2"] = "c1" /\ parent["f1"] = "c1" /\ parent["b1"] = "f1"
  /\ listeners["b2"] > 0
  /\ bind["b2"].container = "c1" /\ bind["b1"].container = "f1"
  /\ bind["b2"].statusEl = "st1" /\ IndexOf("st2", order) < IndexOf("st1", order)
  /\ bind["b2"].metaEl = "me1" /\ bind["b1"].metaEl = NullEl

\* C19: whenever the run of a bound trigger is over and it has run at least
\* once, its status is a warning, an error or the success indicator and not
\* 'processing', and it is the success indicator exactly when the detection
\* response of the last run was parsed.
C19_ProcessingTransient ==
  \A t \in Triggers :
    listeners[t] > 0 /\ RunOver(t) /\ run[t].end # "none" =>
      /\ className[bind[t].statusEl] \in {"warning", "error", "ok"}
      /\ innerHTML[bind[t].statusEl] # Html("<em>Processing</em>", "", "", "")
      /\ className[bind[t].statusEl] = "ok" <=> run[t].txt.json

\* C20: no step changes the binding of a bound trigger, a new attachment
\* included; the handler of a trigger bound without a sensor-output slot
\* sends no sensor request and writes no sensor-output slot, whatever has
\* been inserted into its container since.
C20_BindingFrozen ==
  [][\A t \in Triggers :
       listeners[t] > 0 =>
         /\ bind'[t] = bind[t]
         /\ StepOf(t) /\ bind[t].iotEl = NullEl =>
              /\ IotPending(t, net') = {}
              /\ pc'[t] \notin {"awaitIot", "awaitIotJson"}
              /\ \A e \in {"io1", "io2"} : innerHTML'[e] = innerHTML[e]]_vars

\* a sensor-output slot was inserted into the form of a trigger bound without
\* one, and a later attachment bound a new trigger of the form to it: the
\* first trigger is still bound without it, and its run over a result with
\* a count has ended leaving the slot empty
C20_Witness ==
  \E t, u \in Triggers :
    /\ t # u /\ listeners[t] > 0 /\ listeners[u] > 0
    /\ bind[t].container = bind[u].container
    /\ bind[t].iotEl = NullEl /\ bind[u].iotEl = "io1"
    /\ IsDescendant("io1", bind[t].container, parent)
    /\ run[t].end = "done" /\ HasCount(run[t].txt.val)
    /\ innerHTML["io1"] = Empty
====
